---- MODULE Spec2Model ----
(***************************************************************************)
(* Model of the batch submission manager (batch_itemizer.py,               *)
(* SegmentationBatchManager) and of the batch result retriever             *)
(* (retrieve_batches.py, BatchResultManager).                              *)
(*                                                                         *)
(* Two single-threaded processes share the submission state file:          *)
(*   - the submission loop: refresh the tracked batches, build and submit  *)
(*     a batch, test for exit, sleep;                                      *)
(*   - the retriever: one pass per invocation over the batch ids found in  *)
(*     the submission state file.                                          *)
(* The batch service (OpenAI Batch API) is the environment: it creates     *)
(* batches, moves them through their statuses, answers or fails queries.   *)
(***************************************************************************)
EXTENDS Integers, Sequences, FiniteSets, TLC

\* ------------------------------------------------------------ bounds
\* Number of .txt files in the source directory.
NumFiles == 2
\* Number of batches the service accepts before it rejects every submission.
MaxBatches == 2
\* Number of times the submission process is stopped and started again.
MaxRestarts == 1
\* Number of retriever invocations.
MaxRecRuns == 2
\* The loop iteration counter saturates here.
MaxIter == 3
\* Number of .txt files in the source directory of the batch-building runs.
MaxCatalog == 3

\* ------------------------------------------------- program constants
\* QUEUE_LIMIT_TOKENS, MAX_FILES_PER_BATCH, N_FILES_TO_PROCESS of
\* batch_itemizer.py, scaled down; len(encoder.encode(SYSTEM_PROMPT)).
QUEUE_LIMIT_TOKENS == 6
MAX_FILES_PER_BATCH == 2
N_FILES_TO_PROCESS == 0
system_prompt_tokens == 1

Files == 1..NumFiles
Handles == 1..MaxBatches

\* What opening and encoding a file gives: its token count, or an exception.
FileChoices ==
    { [ok |-> TRUE, tokens |-> 1],
      [ok |-> TRUE, tokens |-> 6],
      [ok |-> FALSE, tokens |-> 0] }

\* Contents of SEGMENTATION_RESULTS_FOLDER: basenames with an _original.txt.
SkipChoices == { {}, {1} }

ActiveStatuses == {"validating", "in_progress", "finalizing"}
\* Mutant: a completed batch is not taken for finished.
TerminalStatusesWithoutCompleted == {"failed", "cancelled", "expired"}

TerminalStatuses == {"completed", "failed", "cancelled", "expired"}

\* The service's batch lifecycle: the statuses that may follow a status. The
\* service shows one status for each branch of the status tests of the code:
\* "validating" (counted as active), "completed" (terminal, retrieved),
\* "failed" (terminal, not retrieved), "cancelling" (in neither list).
NextStatuses(s) ==
    CASE s = "validating" -> {"completed", "failed", "cancelling"}
      [] OTHER -> {}

VARIABLES
    fileContent,        \* file -> what reading and encoding it gives
    skip_basenames,     \* basenames that have a segmentation result
    state,              \* SegmentationBatchManager.state (in memory)
    stateFile,          \* STATE_FILE on disk
    pc,                 \* position of run(): "refresh", "submit", "done"
    available_capacity, \* run()'s local, set by the refresh
    svc,                \* service: handle -> status ("none": not created)
    batchItems,         \* service: handle -> custom_ids of the batch's input file
    restarts,           \* times the submission process was started again
    iterations,         \* history: loop iterations begun (termination scenario)
    rejected,           \* history: files of the batches whose submission
                        \* raised in the current run of the process
    recPc,              \* retriever: "idle", "process", "merge"
    processed_batch_ids,\* BatchResultManager.processed_batch_ids (in memory)
    new_batches,        \* run()'s new_batches still to process
    all_new_results,    \* run()'s all_new_results
    processedFile,      \* PROCESSED_BATCHES_STATE_FILE on disk
    mergedFile,         \* MERGED_OUTPUT_FILE on disk
    recRuns,            \* retriever invocations started
    fetches,            \* history: handle -> times process_batch_result ran on it
    mergedHist,         \* history: file -> payloads merged for it, in order
    lastOutcome         \* history: how the running invocation's last
                        \* process_batch_result ended ("none": not called yet)

subVars == <<state, stateFile, pc, available_capacity, restarts, iterations,
             rejected>>
svcVars == <<svc, batchItems>>
recVars == <<recPc, processed_batch_ids, new_batches, all_new_results,
             processedFile, mergedFile, recRuns, fetches, mergedHist,
             lastOutcome>>
envVars == <<fileContent, skip_basenames>>
vars == <<fileContent, skip_basenames, state, stateFile, pc, available_capacity,
          svc, batchItems, restarts, iterations, rejected, recPc,
          processed_batch_ids,
          new_batches, all_new_results, processedFile, mergedFile, recRuns,
          fetches, mergedHist, lastOutcome>>

\* ----------------------------------------------------------- helpers
EmptyMap == [k \in {} |-> 0]

Min(a, b) == IF a < b THEN a ELSE b

\* The elements of a finite set of integers in ascending order.
RECURSIVE Ascending(_)
Ascending(S) ==
    IF S = {} THEN <<>>
    ELSE LET m == CHOOSE x \in S : \A y \in S : x <= y
         IN <<m>> \o Ascending(S \ {m})

Range(s) == { s[i] : i \in 1..Len(s) }

\* ------------------------------------------------ catalog construction
\* _initialize_source_files: drop the files that have a segmentation result,
\* trim to N_FILES_TO_PROCESS if positive. TAKE_RANDOM_SAMPLE is False as
\* configured, so the list is not shuffled.
FilesToProcess(all_files, skip) ==
    LET kept == SelectSeq(all_files, LAMBDA f : f \notin skip)
    IN IF N_FILES_TO_PROCESS > 0
       THEN SubSeq(kept, 1, Min(N_FILES_TO_PROCESS, Len(kept)))
       ELSE kept

\* _load_state when no state file exists.
DefaultState ==
    [ last_file_submitted_index |-> -1,
      active_batches |-> EmptyMap,
      source_files |-> <<>>,
      all_files_submitted |-> FALSE ]

\* Mutant: the cursor and the flag of the loaded state are kept.
InitializeSourceFilesKeepingCursor(st, skip) ==
    [ st EXCEPT !.source_files = FilesToProcess(Ascending(Files), skip) ]

\* _initialize_source_files applied to a loaded state.
InitializeSourceFiles(st, skip) ==
    [ st EXCEPT !.source_files = FilesToProcess(Ascending(Files), skip),
                !.last_file_submitted_index = -1,
                !.all_files_submitted = FALSE ]

\* ------------------------------------------------------- batch builder
\* Mutant: the capacity test leaves out the tokens of the file at hand.
ExceedsCapacityBeforeAdding(batch_total_tokens, request_tokens, capacity) ==
    batch_total_tokens > capacity

\* The break test of submit_new_batch, in its two parts.
ExceedsCapacity(batch_total_tokens, request_tokens, capacity) ==
    batch_total_tokens + request_tokens > capacity

\* Mutant: the number of files of a batch is not limited.
BatchFullNever(files_for_batch, max_files) == FALSE

BatchFull(files_for_batch, max_files) ==
    Len(files_for_batch) >= max_files

\* request_tokens of one readable file.
RequestTokens(content, f) == system_prompt_tokens + content[f].tokens

\* Mutant: a file that cannot be read does not move the cursor.
OnReadErrorKeepingCursor(acc, i) == acc

\* The except branch of the for loop: the file at index i is skipped and
\* counted as the last file of the batch.
OnReadError(acc, i) == [acc EXCEPT !.last_file_index_in_batch = i]

\* Mutant: the end of the catalog is not recorded.
LoopCompletedNotMarking(acc) == acc

\* The else branch of the for loop: the loop ended without a break.
LoopCompleted(acc) == [acc EXCEPT !.all_files_submitted = TRUE]

\* The for loop of submit_new_batch from 0-based index i on. acc holds the
\* loop's variables; scanned records the indices whose file was opened;
\* all_files_submitted is set by the loop's else branch (no break).
RECURSIVE ScanFiles(_, _, _, _, _, _)
ScanFiles(source_files, content, i, capacity, max_files, acc) ==
    IF i >= Len(source_files)
    THEN LoopCompleted(acc)
    ELSE LET f == source_files[i + 1]
             seen == [acc EXCEPT !.scanned = @ \cup {i}]
         IN IF ~content[f].ok
            THEN ScanFiles(source_files, content, i + 1, capacity, max_files,
                           OnReadError(seen, i))
            ELSE IF \/ ExceedsCapacity(acc.batch_total_tokens,
                                       RequestTokens(content, f), capacity)
                    \/ BatchFull(acc.files_for_batch, max_files)
                 THEN seen
                 ELSE ScanFiles(source_files, content, i + 1, capacity, max_files,
                        [seen EXCEPT
                           !.files_for_batch = Append(@, f),
                           !.batch_total_tokens = @ + RequestTokens(content, f),
                           !.last_file_index_in_batch = i])

\* Mutant: the scan starts at the first file again.
StartIndexFromZero(st) == 0

StartIndex(st) == st.last_file_submitted_index + 1

\* The batch-building part of submit_new_batch.
BuildBatch(st, content, capacity, max_files) ==
    ScanFiles(st.source_files, content, StartIndex(st), capacity, max_files,
              [ files_for_batch |-> <<>>,
                batch_total_tokens |-> 0,
                last_file_index_in_batch |-> st.last_file_submitted_index,
                all_files_submitted |-> st.all_files_submitted,
                scanned |-> {} ])

\* ---------------------------------------------------- lifecycle tracker
\* Mutant: a batch whose status query raises is not counted.
OnQueryFailureNotCounting(acc, rec) == acc

\* The except branch of get_current_queue_size: the record is left as it
\* is and its tokens are counted.
OnQueryFailure(acc, rec) == [acc EXCEPT !.total_tokens = @ + rec.total_tokens]

\* Mutant: a finished batch stays in the map.
KeepRecord(batches, id) == batches

\* del self.state["active_batches"][batch_id]
RemoveRecord(batches, id) == [h \in DOMAIN batches \ {id} |-> batches[h]]

\* The for loop of get_current_queue_size over the tracked batch ids;
\* failed holds the ids whose status query raises.
RECURSIVE RefreshLoop(_, _, _, _)
RefreshLoop(ids, failed, service, acc) ==
    IF ids = <<>> THEN acc
    ELSE LET id == Head(ids)
             rec == acc.active_batches[id]
         IN IF id \in failed
            THEN RefreshLoop(Tail(ids), failed, service,
                   OnQueryFailure(acc, rec))
            ELSE LET status == service[id]
                     upd == [acc.active_batches EXCEPT ![id].status = status]
                 IN IF status \in ActiveStatuses
                    THEN RefreshLoop(Tail(ids), failed, service,
                           [ active_batches |-> upd,
                             total_tokens |-> acc.total_tokens + rec.total_tokens ])
                    ELSE IF status \in TerminalStatuses
                    THEN RefreshLoop(Tail(ids), failed, service,
                           [ active_batches |-> RemoveRecord(upd, id),
                             total_tokens |-> acc.total_tokens ])
                    ELSE RefreshLoop(Tail(ids), failed, service,
                           [ active_batches |-> upd,
                             total_tokens |-> acc.total_tokens ])

\* Mutant: the state is not saved after the statuses were checked.
GetCurrentQueueSizeNotSaving(st, failed, service) ==
    IF DOMAIN st.active_batches = {}
    THEN [ state |-> st, total_tokens |-> 0, saved |-> FALSE ]
    ELSE LET r == RefreshLoop(Ascending(DOMAIN st.active_batches), failed, service,
                     [ active_batches |-> st.active_batches, total_tokens |-> 0 ])
         IN [ state |-> [st EXCEPT !.active_batches = r.active_batches],
              total_tokens |-> r.total_tokens,
              saved |-> FALSE ]

\* get_current_queue_size: the new state, the total returned, and whether
\* the state was saved (the early return on an empty map saves nothing).
GetCurrentQueueSize(st, failed, service) ==
    IF DOMAIN st.active_batches = {}
    THEN [ state |-> st, total_tokens |-> 0, saved |-> FALSE ]
    ELSE LET r == RefreshLoop(Ascending(DOMAIN st.active_batches), failed, service,
                     [ active_batches |-> st.active_batches, total_tokens |-> 0 ])
         IN [ state |-> [st EXCEPT !.active_batches = r.active_batches],
              total_tokens |-> r.total_tokens,
              saved |-> TRUE ]

\* Mutant: the tokens in the queue are not subtracted.
AvailableCapacityIgnoringQueue(current_queue_size) == QUEUE_LIMIT_TOKENS

\* run(): available_capacity = QUEUE_LIMIT_TOKENS - current_queue_size.
AvailableCapacity(current_queue_size) == QUEUE_LIMIT_TOKENS - current_queue_size

\* Mutant: the loop exits as soon as every file was scanned.
LoopExitIgnoringBatches(st) == st.all_files_submitted

\* run(): the exit test at the end of an iteration.
LoopExit(st) == st.all_files_submitted /\ DOMAIN st.active_batches = {}

CreatedHandles == { h \in Handles : svc[h] # "none" }

\* ------------------------------------------- submission loop: actions
\* run(), first half of an iteration: get_current_queue_size and the
\* computation of the available capacity.
Refresh(failed) ==
    /\ pc = "refresh"
    /\ failed \subseteq DOMAIN state.active_batches
    /\ LET r == GetCurrentQueueSize(state, failed, svc)
       IN /\ state' = r.state
          /\ stateFile' = IF r.saved THEN r.state ELSE stateFile
          /\ available_capacity' = AvailableCapacity(r.total_tokens)
    /\ pc' = "submit"
    /\ UNCHANGED <<restarts, rejected, svcVars, recVars, envVars>>

\* Mutant: a rejected submission puts the cursor and the flag back.
AfterRejectedSubmissionRollingBack(st, built) == st

\* submit_new_batch when the upload or the creation raises: the except
\* branch only logs, self.state stays as the scan left it.
AfterRejectedSubmission(st, built) == built

\* The record submit_new_batch stores for an accepted batch.
BatchRecord(b) ==
    [ status |-> "validating",
      total_tokens |-> b.batch_total_tokens,
      file_count |-> Len(b.files_for_batch) ]

\* run(), second half of an iteration: submit_new_batch when there is
\* capacity, then the exit test and the sleep. accepted tells whether the
\* upload and the batch creation succeed.
LoopStep(accepted) ==
    /\ pc = "submit"
    /\ IF available_capacity > 0 /\ ~state.all_files_submitted
       THEN LET b == BuildBatch(state, fileContent, available_capacity,
                                MAX_FILES_PER_BATCH)
                built == [state EXCEPT
                            !.last_file_submitted_index = b.last_file_index_in_batch,
                            !.all_files_submitted = b.all_files_submitted]
            IN IF b.files_for_batch = <<>>
               THEN /\ state' = built
                    /\ stateFile' = built
                    /\ UNCHANGED <<svcVars, rejected>>
               ELSE IF accepted
               THEN /\ CreatedHandles # Handles
                    /\ LET id == Cardinality(CreatedHandles) + 1
                           added == [h \in DOMAIN built.active_batches \cup {id} |->
                                       IF h = id THEN BatchRecord(b)
                                       ELSE built.active_batches[h]]
                       IN /\ state' = [built EXCEPT !.active_batches = added]
                          /\ stateFile' = state'
                          /\ svc' = [svc EXCEPT ![id] = "validating"]
                          /\ batchItems' = [batchItems EXCEPT ![id] = b.files_for_batch]
                          /\ UNCHANGED rejected
               ELSE /\ state' = AfterRejectedSubmission(state, built)
                    /\ rejected' = rejected \cup Range(b.files_for_batch)
                    /\ UNCHANGED <<stateFile, svcVars>>
       ELSE UNCHANGED <<state, stateFile, svcVars, rejected>>
    /\ pc' = IF LoopExit(state') THEN "done" ELSE "refresh"
    /\ available_capacity' = 0
    /\ UNCHANGED <<restarts, iterations, recVars, envVars>>

\* The submission process is stopped (or has exited) and is started again:
\* __init__ loads the state file and rebuilds the catalog.
Restart ==
    /\ restarts < MaxRestarts
    /\ state' = InitializeSourceFiles(stateFile, skip_basenames)
    /\ stateFile' = state'
    /\ pc' = "refresh"
    /\ available_capacity' = 0
    /\ restarts' = restarts + 1
    /\ rejected' = {}
    /\ UNCHANGED iterations
    /\ UNCHANGED <<svcVars, recVars, envVars>>

\* ------------------------------------------------------ batch service
\* The service moves a batch to a following status.
SvcStep(h, s) ==
    /\ svc[h] # "none"
    /\ s \in NextStatuses(svc[h])
    /\ svc' = [svc EXCEPT ![h] = s]
    /\ UNCHANGED <<batchItems, subVars, recVars, envVars>>

\* ----------------------------------------------------------- retriever
\* Mutant: the processed ids file is not read.
LoadProcessedIdsStartingFresh(file) == {}

\* _load_state of the retriever: the set of the ids in the processed file.
LoadProcessedIds(file) == file

\* Mutant: no id is skipped.
AlreadyProcessedNever(batch_id, processed) == FALSE

\* get_new_completed_batches: the skip of an id already processed.
AlreadyProcessed(batch_id, processed) == batch_id \in processed

\* Mutant: the status answered is not tested.
GetNewBatchesOfAnyStatus(submission_state, processed, qfail, service) ==
    SelectSeq(Ascending(DOMAIN submission_state.active_batches),
              LAMBDA id : /\ ~AlreadyProcessed(id, processed)
                          /\ id \notin qfail)

\* get_new_completed_batches: the ids of the submission state file, in the
\* file's order, that are not processed, whose status query succeeds (qfail
\* holds the ids whose query raises) and answers 'completed'.
GetNewCompletedBatches(submission_state, processed, qfail, service) ==
    SelectSeq(Ascending(DOMAIN submission_state.active_batches),
              LAMBDA id : /\ ~AlreadyProcessed(id, processed)
                          /\ id \notin qfail
                          /\ service[id] = "completed")

\* The parsed model output of one result line: the service's answer for
\* file f in batch h.
Payload(h, f) == <<h, f>>

Outcomes == {"ok", "no_output_file", "download_error", "line_raises"}

\* process_batch_result. dropped holds the custom_ids whose line does not
\* give a result. outcome: the batch has no output file; the download raises;
\* every line is handled ("ok": the lines of dropped are malformed or raise
\* JSONDecodeError, KeyError or IndexError, which the inner handler catches);
\* or a line of dropped raises another exception ("line_raises": a null
\* response gives AttributeError, a null message or content gives TypeError),
\* which only the outer handler catches, and it returns {}.
ProcessBatchResult(h, items, outcome, dropped) ==
    IF outcome = "ok"
    THEN [f \in Range(items) \ dropped |-> Payload(h, f)]
    ELSE EmptyMap

\* dict.update
DictUpdate(old, new) ==
    [k \in DOMAIN old \cup DOMAIN new |-> IF k \in DOMAIN new THEN new[k] ELSE old[k]]

\* run(): all_new_results.update(batch_results)
AccumulateResults(acc, batch_results) == DictUpdate(acc, batch_results)

\* Mutant: an entry the merged file already holds is kept.
MergeIntoStoreKeepingOld(final_results, new_results, now) ==
    LET results == DictUpdate(new_results, final_results.results)
    IN [ results |-> results,
         last_updated_timestamp |-> now,
         total_files_processed |-> Cardinality(DOMAIN results) ]

\* run(): the merged file's content after the update with the new results.
MergeIntoStore(final_results, new_results, now) ==
    LET results == DictUpdate(final_results.results, new_results)
    IN [ results |-> results,
         last_updated_timestamp |-> now,
         total_files_processed |-> Cardinality(DOMAIN results) ]

\* run(): nothing is written when no new result was found.
NothingToMerge(new_results) == DOMAIN new_results = {}

RecIdleVars == <<processed_batch_ids, new_batches, all_new_results>>

\* An invocation starts: __init__ loads the processed ids, run() calls
\* get_new_completed_batches and returns when it finds nothing.
RecStart(qfail) ==
    /\ recPc = "idle"
    /\ recRuns < MaxRecRuns
    /\ qfail \subseteq DOMAIN stateFile.active_batches \ processedFile
    /\ recRuns' = recRuns + 1
    /\ LET loaded == LoadProcessedIds(processedFile)
           found == GetNewCompletedBatches(stateFile, loaded, qfail, svc)
       IN IF found = <<>>
          THEN UNCHANGED <<recPc, RecIdleVars>>
          ELSE /\ recPc' = "process"
               /\ processed_batch_ids' = loaded
               /\ new_batches' = found
               /\ all_new_results' = EmptyMap
    /\ UNCHANGED <<processedFile, mergedFile, fetches, mergedHist, lastOutcome,
                   subVars, svcVars, envVars>>

\* One turn of run()'s for loop: process_batch_result, the update of the
\* accumulator, the batch marked processed and the processed ids saved.
RecProcess(outcome, dropped) ==
    /\ recPc = "process"
    /\ LET h == Head(new_batches)
           batch_results == ProcessBatchResult(h, batchItems[h], outcome, dropped)
       IN /\ dropped \subseteq Range(batchItems[h])
          /\ outcome \in {"no_output_file", "download_error"} => dropped = {}
          /\ outcome = "line_raises" => dropped # {}
          /\ all_new_results' = AccumulateResults(all_new_results, batch_results)
          /\ processed_batch_ids' = processed_batch_ids \cup {h}
          /\ processedFile' = processed_batch_ids'
          /\ fetches' = [fetches EXCEPT ![h] = @ + 1]
          /\ mergedHist' = [f \in Files |->
                              IF f \in DOMAIN batch_results
                              THEN Append(mergedHist[f], batch_results[f])
                              ELSE mergedHist[f]]
    /\ new_batches' = Tail(new_batches)
    /\ recPc' = IF Tail(new_batches) = <<>> THEN "merge" ELSE "process"
    /\ lastOutcome' = outcome
    /\ UNCHANGED <<mergedFile, recRuns, subVars, svcVars, envVars>>

\* Mutant: the end of run() also clears the batches of the submission
\* state file.
RecMergeClearingSubmissionState ==
    /\ recPc = "merge"
    /\ mergedFile' = IF NothingToMerge(all_new_results)
                     THEN mergedFile
                     ELSE MergeIntoStore(mergedFile, all_new_results, recRuns)
    /\ stateFile' = [stateFile EXCEPT !.active_batches = EmptyMap]
    /\ recPc' = "idle"
    /\ processed_batch_ids' = {}
    /\ new_batches' = <<>>
    /\ all_new_results' = EmptyMap
    /\ lastOutcome' = "none"
    /\ UNCHANGED <<processedFile, recRuns, fetches, mergedHist,
                   state, pc, available_capacity, restarts, iterations,
                   rejected, svcVars, envVars>>

\* The end of run(): the merged file is loaded, updated and written, unless
\* no new result was found; the process exits.
RecMerge ==
    /\ recPc = "merge"
    /\ mergedFile' = IF NothingToMerge(all_new_results)
                     THEN mergedFile
                     ELSE MergeIntoStore(mergedFile, all_new_results, recRuns)
    /\ recPc' = "idle"
    /\ processed_batch_ids' = {}
    /\ new_batches' = <<>>
    /\ all_new_results' = EmptyMap
    /\ lastOutcome' = "none"
    /\ UNCHANGED <<processedFile, recRuns, fetches, mergedHist,
                   subVars, svcVars, envVars>>

\* The retriever process dies in the middle of run(): its memory is lost,
\* the files stay as they were last written.
RecCrash ==
    /\ recPc # "idle"
    /\ recPc' = "idle"
    /\ processed_batch_ids' = {}
    /\ new_batches' = <<>>
    /\ all_new_results' = EmptyMap
    /\ lastOutcome' = "none"
    /\ UNCHANGED <<processedFile, mergedFile, recRuns, fetches, mergedHist,
                   subVars, svcVars, envVars>>

\* ------------------------------------------------------ specifications
Init ==
    /\ fileContent \in [Files -> FileChoices]
    /\ skip_basenames \in SkipChoices
    /\ state = InitializeSourceFiles(DefaultState, skip_basenames)
    /\ stateFile = state
    /\ pc = "refresh"
    /\ available_capacity = 0
    /\ svc = [h \in Handles |-> "none"]
    /\ batchItems = [h \in Handles |-> <<>>]
    /\ restarts = 0
    /\ iterations = 0
    /\ rejected = {}
    /\ recPc = "idle"
    /\ processed_batch_ids = {}
    /\ new_batches = <<>>
    /\ all_new_results = EmptyMap
    /\ processedFile = {}
    /\ mergedFile = [ results |-> EmptyMap,
                      last_updated_timestamp |-> 0,
                      total_files_processed |-> 0 ]
    /\ recRuns = 0
    /\ fetches = [h \in Handles |-> 0]
    /\ mergedHist = [f \in Files |-> <<>>]
    /\ lastOutcome = "none"

\* A refresh that is not counted, and one that is.
RefreshStep(failed) == Refresh(failed) /\ UNCHANGED iterations

CountedRefresh(failed) ==
    Refresh(failed) /\ iterations' = Min(iterations + 1, MaxIter)

\* The submission loop alone, with every failure of the service: status
\* queries that raise, submissions that are rejected.
NextSub ==
    \/ \E failed \in SUBSET DOMAIN state.active_batches : RefreshStep(failed)
    \/ \E accepted \in BOOLEAN : LoopStep(accepted)
    \/ Restart
    \/ \E h \in Handles : \E s \in NextStatuses(svc[h]) : SvcStep(h, s)

SpecSub == Init /\ [][NextSub]_vars

\* Both processes. The catalog is one of readable files that fit, and the
\* service accepts a submission as long as it has a handle left.
InitRec ==
    /\ Init
    /\ skip_basenames = {}
    /\ \A f \in Files : fileContent[f] = [ok |-> TRUE, tokens |-> 1]

Next ==
    \/ \E failed \in SUBSET DOMAIN state.active_batches : RefreshStep(failed)
    \/ LoopStep(CreatedHandles # Handles)
    \/ Restart
    \/ \E h \in Handles : \E s \in NextStatuses(svc[h]) : SvcStep(h, s)
    \/ \E qfail \in SUBSET DOMAIN stateFile.active_batches : RecStart(qfail)
    \/ \E outcome \in Outcomes : \E dropped \in SUBSET Files :
          RecProcess(outcome, dropped)
    \/ RecMerge

Spec == InitRec /\ [][Next]_vars

\* The same system with a retriever that may die in the middle of a run.
NextCrash == Next \/ RecCrash

SpecCrash == InitRec /\ [][NextCrash]_vars

\* The termination scenario: every file of the catalog is readable, the
\* catalog fits in one batch, submissions are accepted, no query fails, the
\* service completes every batch before it is polled by the loop, and every
\* result line parses. The loop and the service keep running.
InitTerm ==
    /\ Init
    /\ \A i \in 1..Len(state.source_files) : fileContent[state.source_files[i]].ok
    /\ LET b == BuildBatch(state, fileContent, QUEUE_LIMIT_TOKENS, MAX_FILES_PER_BATCH)
       IN b.files_for_batch = state.source_files

AllReportedDone == \A h \in DOMAIN state.active_batches : svc[h] = "completed"

TermLoop ==
    \/ \E h \in Handles : SvcStep(h, "completed")
    \/ AllReportedDone /\ CountedRefresh({})
    \/ LoopStep(TRUE)

NextTerm ==
    \/ TermLoop
    \/ RecStart({})
    \/ RecProcess("ok", {})
    \/ RecMerge

SpecTerm == InitTerm /\ [][NextTerm]_vars /\ WF_vars(TermLoop)

\* One run of the submission loop over a source directory of MaxCatalog
\* files, none of which has a segmentation result: more files than one
\* batch may hold. The service may reject a submission and fail a query.
BuildFiles == 1..MaxCatalog

InitBuild ==
    /\ fileContent \in [BuildFiles -> FileChoices]
    /\ skip_basenames = {}
    /\ state = [DefaultState EXCEPT
                  !.source_files = FilesToProcess(Ascending(BuildFiles), skip_basenames)]
    /\ stateFile = state
    /\ pc = "refresh"
    /\ available_capacity = 0
    /\ svc = [h \in Handles |-> "none"]
    /\ batchItems = [h \in Handles |-> <<>>]
    /\ restarts = 0
    /\ iterations = 0
    /\ rejected = {}
    /\ recPc = "idle"
    /\ processed_batch_ids = {}
    /\ new_batches = <<>>
    /\ all_new_results = EmptyMap
    /\ processedFile = {}
    /\ mergedFile = [ results |-> EmptyMap,
                      last_updated_timestamp |-> 0,
                      total_files_processed |-> 0 ]
    /\ recRuns = 0
    /\ fetches = [h \in Handles |-> 0]
    /\ mergedHist = [f \in Files |-> <<>>]
    /\ lastOutcome = "none"

NextBuild ==
    \/ \E failed \in SUBSET DOMAIN state.active_batches : RefreshStep(failed)
    \/ \E accepted \in BOOLEAN : LoopStep(accepted)
    \/ \E h \in Handles : \E s \in NextStatuses(svc[h]) : SvcStep(h, s)

SpecBuild == InitBuild /\ [][NextBuild]_vars

\* The batch builder applied to sized examples: a catalog of MaxCatalog
\* files whose requests cost 10 or 5 tokens or cannot be read, a capacity
\* of the example, and room for max_files files in a batch.
ExampleConfig == [ max_files |-> 5, capacities |-> {15, 20, 25, 30} ]

ExampleContents ==
    { [ok |-> TRUE, tokens |-> 10 - system_prompt_tokens],
      [ok |-> TRUE, tokens |-> 5 - system_prompt_tokens],
      [ok |-> FALSE, tokens |-> 0] }

InitExample ==
    /\ fileContent \in [BuildFiles -> ExampleContents]
    /\ skip_basenames = {}
    /\ state = [DefaultState EXCEPT
                  !.source_files = FilesToProcess(Ascending(BuildFiles), skip_basenames)]
    /\ stateFile = state
    /\ pc = "submit"
    /\ available_capacity \in ExampleConfig.capacities
    /\ svc = [h \in Handles |-> "none"]
    /\ batchItems = [h \in Handles |-> <<>>]
    /\ restarts = 0
    /\ iterations = 0
    /\ rejected = {}
    /\ recPc = "idle"
    /\ processed_batch_ids = {}
    /\ new_batches = <<>>
    /\ all_new_results = EmptyMap
    /\ processedFile = {}
    /\ mergedFile = [ results |-> EmptyMap,
                      last_updated_timestamp |-> 0,
                      total_files_processed |-> 0 ]
    /\ recRuns = 0
    /\ fetches = [h \in Handles |-> 0]
    /\ mergedHist = [f \in Files |-> <<>>]
    /\ lastOutcome = "none"

\* The batch-building part of submit_new_batch, up to the batch input file:
\* the cursor and the flag are set, the files of the batch are written out.
BuildExample ==
    /\ pc = "submit"
    /\ LET b == BuildBatch(state, fileContent, available_capacity,
                           ExampleConfig.max_files)
       IN /\ state' = [state EXCEPT
                         !.last_file_submitted_index = b.last_file_index_in_batch,
                         !.all_files_submitted = b.all_files_submitted]
          /\ batchItems' = [batchItems EXCEPT ![1] = b.files_for_batch]
    /\ pc' = IF LoopExit(state') THEN "done" ELSE "refresh"
    /\ UNCHANGED <<stateFile, available_capacity, restarts, iterations, rejected,
                   svc, recVars, envVars>>

SpecExample == InitExample /\ [][BuildExample]_vars

\* ---------------------------------------------------------------------
\* Claims about the batch builder and the submission loop (SpecSub)
\* ---------------------------------------------------------------------
\* The sum of the request tokens of the files of a batch, each computed anew.
RECURSIVE SumRequestTokens(_, _)
SumRequestTokens(content, files) ==
    IF files = <<>> THEN 0
    ELSE RequestTokens(content, Head(files)) + SumRequestTokens(content, Tail(files))

\* The batch submit_new_batch builds in the current state.
CurrentBuild ==
    BuildBatch(state, fileContent, available_capacity, MAX_FILES_PER_BATCH)

\* submit_new_batch is about to scan files.
Building == pc = "submit" /\ available_capacity > 0 /\ ~state.all_files_submitted

\* The 0-based index at which the scan of b stopped early, when it did.
StopIndex(b) == b.last_file_index_in_batch + 1

\* C1: for every catalog, every cursor and every available capacity, the
\* request tokens (system prompt + content) of the files of one built batch
\* sum to at most the capacity passed in.
C1_CapacityRespect ==
    \A cursor \in -1..(Len(state.source_files) - 1) :
      \A capacity \in 0..QUEUE_LIMIT_TOKENS :
        LET b == BuildBatch([state EXCEPT !.last_file_submitted_index = cursor],
                            fileContent, capacity, MAX_FILES_PER_BATCH)
        IN /\ SumRequestTokens(fileContent, b.files_for_batch) <= capacity
           /\ b.batch_total_tokens = SumRequestTokens(fileContent, b.files_for_batch)

\* C1 witness: the loop builds a batch that holds a file and stops at a
\* readable file because adding it would exceed the capacity.
C1_Witness ==
    /\ Building
    /\ CurrentBuild.files_for_batch # <<>>
    /\ ~CurrentBuild.all_files_submitted
    /\ ExceedsCapacity(CurrentBuild.batch_total_tokens,
                       RequestTokens(fileContent,
                                     state.source_files[StopIndex(CurrentBuild) + 1]),
                       available_capacity)

\* C2: within one run of the submission process (no restart), no step
\* lowers last_file_submitted_index, and a call of submit_new_batch opens
\* only files at indices above the cursor it starts from.
C2_CursorMonotone ==
    [][ restarts' = restarts =>
          /\ state'.last_file_submitted_index >= state.last_file_submitted_index
          /\ Building =>
                \A i \in CurrentBuild.scanned : i > state.last_file_submitted_index
      ]_vars

\* C2 witness: in the run after a restart the cursor advanced twice: the
\* second batch ended at index 0 and the cursor is now at index 1.
C2_Witness ==
    /\ restarts = 1
    /\ svc[2] # "none"
    /\ batchItems[2] = <<1>>
    /\ fileContent[2] = [ok |-> TRUE, tokens |-> 1]
    /\ state.last_file_submitted_index = 1

\* C3: no file is placed into more than one submitted batch, also when the
\* submission process is stopped and started again from its state file.
C3_SubmittedAtMostOnce ==
    \A h1 \in CreatedHandles : \A h2 \in CreatedHandles :
        h1 # h2 => Range(batchItems[h1]) \cap Range(batchItems[h2]) = {}

\* The committed tokens of the records whose status is an active one.
RECURSIVE SumTokensOf(_, _)
SumTokensOf(batches, ids) ==
    IF ids = {} THEN 0
    ELSE LET h == CHOOSE x \in ids : TRUE
         IN batches[h].total_tokens + SumTokensOf(batches, ids \ {h})

ActiveCost(batches) ==
    SumTokensOf(batches, { h \in DOMAIN batches : batches[h].status \in ActiveStatuses })

\* C4: whenever a batch is accepted, the committed tokens of the records in
\* an active status plus the tokens of the new batch are at most
\* QUEUE_LIMIT_TOKENS, whatever refreshes, query failures, rejected
\* submissions and restarts came before.
C4_CeilingAtSubmission ==
    [][ \A h \in Handles :
          (svc[h] = "none" /\ svc'[h] # "none") =>
             ActiveCost(state.active_batches) + state'.active_batches[h].total_tokens
                <= QUEUE_LIMIT_TOKENS
      ]_vars

\* C4 witness: a batch was accepted while another one was counted as
\* active, and the two fill the ceiling.
C4_Witness ==
    /\ DOMAIN state.active_batches = {1, 2}
    /\ \A h \in {1, 2} : state.active_batches[h].status \in ActiveStatuses
    /\ ActiveCost(state.active_batches) = QUEUE_LIMIT_TOKENS

\* ---------------------------------------------------------------------
\* Claims about the retriever (Spec, SpecCrash)
\* ---------------------------------------------------------------------
Last(seq) == seq[Len(seq)]

\* C5: with invocations that run one after the other to their end, every
\* batch is handed to process_batch_result at most once, and a batch id in
\* the processed file is never queued for processing.
C5_ProcessedAtMostOnce ==
    \A h \in Handles :
        /\ fetches[h] <= 1
        /\ h \in processedFile => h \notin Range(new_batches)

\* C5 witness: a batch was processed by the first invocation, and a second
\* invocation has run while the batch was still listed in the submission
\* state file and reported completed.
C5_Witness ==
    /\ recPc = "idle"
    /\ recRuns = 2
    /\ mergedFile.last_updated_timestamp = 1
    /\ \E h \in DOMAIN stateFile.active_batches :
          /\ h \in processedFile
          /\ fetches[h] = 1
          /\ svc[h] = "completed"

\* C8: when the retriever has died in a run, then afterwards no batch is
\* marked processed in the processed file while a result that was read from
\* it is missing from the merged file, and no batch is processed twice.
C8_CrashLosesNothing ==
    recPc = "idle" =>
      \A h \in processedFile :
        /\ fetches[h] <= 1
        /\ \A f \in Files :
              (\E i \in 1..Len(mergedHist[f]) : mergedHist[f][i] = Payload(h, f))
                 => f \in DOMAIN mergedFile.results

\* C9: an invocation that starts when every batch id of the submission
\* state file is in the processed file ends at once and leaves the merged
\* file (results, timestamp, count) and the processed file as they were.
C9_SecondRunChangesNothing ==
    [][ ( /\ recPc = "idle"
          /\ recRuns' = recRuns + 1
          /\ DOMAIN stateFile.active_batches \subseteq processedFile )
        => ( /\ mergedFile' = mergedFile
             /\ processedFile' = processedFile
             /\ recPc' = "idle" )
      ]_vars

\* C9 witness: the only batch was merged by the first invocation, it is
\* still listed in the submission state file, and a second invocation ran.
C9_Witness ==
    /\ recPc = "idle"
    /\ recRuns = 2
    /\ CreatedHandles = {1}
    /\ DOMAIN stateFile.active_batches = {1}
    /\ processedFile = {1}
    /\ mergedFile.last_updated_timestamp = 1
    /\ mergedFile.total_files_processed = NumFiles

\* C10: when no invocation is running, the merged file holds for every
\* file the payload that was merged last for it, one entry per file that
\* had a payload merged, and the count of its entries.
C10_LastWriterWins ==
    recPc = "idle" =>
      /\ \A f \in Files :
            IF mergedHist[f] = <<>>
            THEN f \notin DOMAIN mergedFile.results
            ELSE /\ f \in DOMAIN mergedFile.results
                 /\ mergedFile.results[f] = Last(mergedHist[f])
      /\ mergedFile.total_files_processed = Cardinality(DOMAIN mergedFile.results)

\* C10 witness: two different payloads from two batches were merged for
\* one file, and the merged file holds the second.
C10_Witness ==
    /\ recPc = "idle"
    /\ \E f \in Files :
          /\ Len(mergedHist[f]) = 2
          /\ mergedHist[f][1] # mergedHist[f][2]
          /\ mergedFile.results[f] = mergedHist[f][2]

\* ---------------------------------------------------------------------
\* Claims about the termination scenario (SpecTerm)
\* ---------------------------------------------------------------------
\* C6: in the termination scenario the loop exits, and it never begins a
\* third iteration.
C6_Termination == <>(pc = "done") /\ [](iterations <= 2)

\* C6 witness: the loop has exited in its second iteration, after a batch
\* with every file of the directory was accepted and reported completed.
C6_Witness ==
    /\ pc = "done"
    /\ iterations = 2
    /\ Len(batchItems[1]) = NumFiles
    /\ svc[1] = "completed"

\* C7: in the termination scenario, once the loop has exited and no
\* invocation of the retriever is running, the merged file holds an entry
\* for each of the N files of the catalog, or a completed batch that is not
\* yet processed is still listed in the submission state file for the next
\* invocation to find.
C7_AllResultsStored ==
    (pc = "done" /\ recPc = "idle") =>
       \/ Cardinality(DOMAIN mergedFile.results) = Len(state.source_files)
       \/ \E h \in DOMAIN stateFile.active_batches :
             svc[h] = "completed" /\ h \notin processedFile

\* ---------------------------------------------------------------------
\* Claims about failures (SpecSub, Spec)
\* ---------------------------------------------------------------------
\* C11: when a scan of submit_new_batch reaches a file that cannot be read
\* or encoded, the cursor the scan leaves is at least the index of that
\* file, the scan goes on to the next index (or ends the catalog), and the
\* file is in no batch: neither in the one being built nor in one submitted.
C11_SkipOnError ==
    /\ \A cursor \in -1..(Len(state.source_files) - 1) :
         \A capacity \in 1..QUEUE_LIMIT_TOKENS :
           LET b == BuildBatch([state EXCEPT !.last_file_submitted_index = cursor,
                                             !.all_files_submitted = FALSE],
                               fileContent, capacity, MAX_FILES_PER_BATCH)
           IN \A k \in b.scanned :
                ~fileContent[state.source_files[k + 1]].ok =>
                   /\ b.last_file_index_in_batch >= k
                   /\ IF k + 1 < Len(state.source_files)
                      THEN k + 1 \in b.scanned
                      ELSE b.all_files_submitted
                   /\ state.source_files[k + 1] \notin Range(b.files_for_batch)
    /\ \A h \in CreatedHandles : \A f \in Range(batchItems[h]) : fileContent[f].ok

\* C11 witness: the first file of the catalog cannot be read, the first
\* batch holds the second file alone, and the cursor is past both.
C11_Witness ==
    /\ state.source_files = <<1, 2>>
    /\ ~fileContent[1].ok
    /\ batchItems[1] = <<2>>
    /\ state.last_file_submitted_index = 1
    /\ restarts = 0

\* C12: when the download of a completed batch's result file raises in
\* process_batch_result, the batch is not written to the processed file by
\* that turn of run()'s loop, so that a later invocation finds it again.
C12_FetchFailureRetried ==
    [][ ( /\ recPc = "process"
          /\ fetches' # fetches
          /\ lastOutcome' = "download_error" )
        => Head(new_batches) \notin processedFile'
      ]_vars

\* C13: when the result file of a batch is downloaded, the records that fail
\* to parse, whether the inner handler catches their exception or not, are
\* dropped alone: process_batch_result returns a result for every other
\* record of the batch.
C13_BadRecordDroppedAlone ==
    recPc = "process" =>
      LET h == Head(new_batches)
          items == batchItems[h]
      IN \A outcome \in {"ok", "line_raises"} :
           \A dropped \in SUBSET Range(items) :
             (outcome = "line_raises" => dropped # {}) =>
                DOMAIN ProcessBatchResult(h, items, outcome, dropped)
                   = Range(items) \ dropped

\* The committed tokens of a set of tracked batches.
TokensOf(ids) == SumTokensOf(state.active_batches, ids)

\* C14: for every set of tracked batches whose status query raises during
\* get_current_queue_size, each of them stays in the map with its record
\* unchanged, the total returned counts the tokens of each of them, and the
\* capacity computed from it is at most the capacity computed when no
\* query raises.
C14_QueryFailureCounted ==
    \A failed \in SUBSET DOMAIN state.active_batches :
      LET r == GetCurrentQueueSize(state, failed, svc)
          r0 == GetCurrentQueueSize(state, {}, svc)
          counted == { h \in DOMAIN state.active_batches \ failed :
                         svc[h] \in ActiveStatuses }
      IN /\ \A h \in failed :
               /\ h \in DOMAIN r.state.active_batches
               /\ r.state.active_batches[h] = state.active_batches[h]
         /\ r.total_tokens = TokensOf(failed) + TokensOf(counted)
         /\ AvailableCapacity(r.total_tokens) <= AvailableCapacity(r0.total_tokens)

\* C14 witness: the loop is about to refresh a tracked batch that the
\* service has finished; a status query that raises keeps its tokens in the
\* total, and the capacity computed is smaller than without the failure.
C14_Witness ==
    /\ pc = "refresh"
    /\ \E h \in DOMAIN state.active_batches :
          /\ svc[h] \in TerminalStatuses
          /\ state.active_batches[h].status = "validating"
          /\ AvailableCapacity(GetCurrentQueueSize(state, {h}, svc).total_tokens)
               < AvailableCapacity(GetCurrentQueueSize(state, {}, svc).total_tokens)

\* C15: a refresh that is answered a terminal status (completed, failed,
\* cancelled, expired) for a tracked batch removes its record from the map
\* and does not count its tokens; and a batch that was created and is no
\* longer in the map is never in the map again, in this run or after a
\* restart.
C15_TerminalRemovedForGood ==
    [][ /\ \A h \in CreatedHandles :
             h \notin DOMAIN state.active_batches =>
                h \notin DOMAIN state'.active_batches
        /\ \A h \in DOMAIN state.active_batches :
             LET r == GetCurrentQueueSize(state, {}, svc)
             IN svc[h] \in TerminalStatuses =>
                  /\ h \notin DOMAIN r.state.active_batches
                  /\ r.total_tokens
                        = TokensOf({ g \in DOMAIN state.active_batches :
                                       svc[g] \in ActiveStatuses })
      ]_vars

\* C15 witness: the first batch was reported completed and removed; since
\* then the process was started again and a second batch was accepted, and
\* the first batch is not in the map.
C15_Witness ==
    /\ svc[1] = "completed"
    /\ restarts = 1
    /\ DOMAIN state.active_batches = {2}
    /\ DOMAIN stateFile.active_batches = {2}

\* C16: when a call of submit_new_batch that scanned files returns, with an
\* empty batch, an accepted batch or a rejected one, the cursor in the state
\* file equals the cursor in memory.
C16_CursorPersisted ==
    [][ ( /\ Building
          /\ CurrentBuild.scanned # {}
          /\ pc' # "submit"
          /\ restarts' = restarts )
        => stateFile'.last_file_submitted_index = state'.last_file_submitted_index
      ]_vars

\* C17: a step that writes the submission state file changes nothing of the
\* retriever, and a step that writes the processed file or the merged file
\* is a step of a running retriever invocation that changes nothing of the
\* submission loop: the retriever only reads the submission state file, the
\* loop never touches the retriever's two files.
C17_FileOwnership ==
    [][ /\ stateFile' # stateFile => recVars' = recVars
        /\ (processedFile' # processedFile \/ mergedFile' # mergedFile) =>
              /\ subVars' = subVars
              /\ recPc # "idle"
      ]_vars

\* C17 witness: the retriever has read the submission state file and
\* written its two files, and the loop has written the state file after it.
C17_Witness ==
    /\ recPc = "idle"
    /\ processedFile = {1}
    /\ mergedFile.total_files_processed > 0
    /\ DOMAIN stateFile.active_batches = {2}
    /\ stateFile.active_batches[2].status = "cancelling"

\* C18: when the submission process is started again, the cursor is -1 and
\* all_files_submitted is False whatever the state file held, the map of
\* tracked batches is the one of the state file and the one the stopped
\* process had, and the state file is written with that state.
C18_RestartResetsCursor ==
    [][ restarts' # restarts =>
          /\ state'.last_file_submitted_index = -1
          /\ state'.all_files_submitted = FALSE
          /\ state'.active_batches = stateFile.active_batches
          /\ state'.active_batches = state.active_batches
          /\ stateFile' = state'
      ]_vars

\* C18 witness: the process was started again while the state file held the
\* cursor at the last file, the flag set and a tracked batch; the cursor is
\* back at -1, the flag is cleared and the batch is still tracked.
C18_Witness ==
    /\ restarts = 1
    /\ pc = "refresh"
    /\ Len(batchItems[1]) = NumFiles
    /\ svc[2] = "none"
    /\ DOMAIN state.active_batches = {1}
    /\ state.last_file_submitted_index = -1
    /\ ~state.all_files_submitted
    /\ stateFile = state

\* C19: at the end of an iteration the loop exits exactly when
\* all_files_submitted is set and the map of tracked batches is empty;
\* otherwise it sleeps and its next step is a refresh. The loop exits
\* nowhere else.
C19_ExitIffExhaustedAndEmpty ==
    [][ /\ (pc = "submit" /\ pc' # "submit" /\ restarts' = restarts) =>
              IF state'.all_files_submitted /\ state'.active_batches = EmptyMap
              THEN pc' = "done"
              ELSE pc' = "refresh"
        /\ (pc # "done" /\ pc' = "done") => pc = "submit"
      ]_vars

\* C19 witness: the loop slept with every file scanned while a batch was
\* still tracked, and exited at the end of a later iteration, after the
\* batch was reported failed and removed.
C19_Witness ==
    /\ pc = "done"
    /\ restarts = 0
    /\ svc[1] = "failed"
    /\ Len(batchItems[1]) = Len(state.source_files)
    /\ state.active_batches = EmptyMap

\* C20: when the submission of a built batch raises, the cursor and the
\* flag stay as the scan set them and the map of tracked batches is
\* unchanged; and no batch accepted later in the same run of the process
\* holds a file of a batch that was rejected in that run.
C20_RejectedBatchNotRetried ==
    [][ /\ ( /\ Building
             /\ CurrentBuild.files_for_batch # <<>>
             /\ pc' # "submit"
             /\ restarts' = restarts
             /\ svc' = svc )
           => /\ state'.last_file_submitted_index
                    = CurrentBuild.last_file_index_in_batch
              /\ state'.all_files_submitted = CurrentBuild.all_files_submitted
              /\ state'.active_batches = state.active_batches
        /\ \A h \in Handles :
             (svc[h] = "none" /\ svc'[h] # "none") =>
                Range(batchItems'[h]) \cap rejected = {}
      ]_vars

\* C20 witness: the loop has exited in its first run although a batch was
\* rejected, and a file of that batch is in no batch the service accepted.
C20_Witness ==
    /\ pc = "done"
    /\ restarts = 0
    /\ rejected # {}
    /\ \A f \in rejected : \A h \in Handles : f \notin Range(batchItems[h])

\* ---------------------------------------------------------------------
\* Claims about the batch builder, over a directory of MaxCatalog files
\* (SpecBuild)
\* ---------------------------------------------------------------------
\* The largest element of a non-empty finite set of integers.
MaxOf(S) == CHOOSE x \in S : \A y \in S : y <= x

\* The batch built from a given cursor with a given capacity, the flag clear.
BuildFrom(cursor, capacity) ==
    BuildBatch([state EXCEPT !.last_file_submitted_index = cursor,
                             !.all_files_submitted = FALSE],
               fileContent, capacity, MAX_FILES_PER_BATCH)

Cursors == -1..(Len(state.source_files) - 1)
Capacities == 1..QUEUE_LIMIT_TOKENS

\* C21: when a scan stops early, the file it stopped at is readable, it
\* exceeds the capacity left or the batch is full, it is not in the batch,
\* the new cursor is the index just before it, and whatever the capacity of
\* the next scan, that scan opens this file first.
C21_StoppedItemNotConsumed ==
    \A cursor \in Cursors : \A capacity \in Capacities :
      LET b == BuildFrom(cursor, capacity)
      IN ~b.all_files_submitted =>
           LET s == MaxOf(b.scanned)
               item == state.source_files[s + 1]
           IN /\ fileContent[item].ok
              /\ \/ ExceedsCapacity(b.batch_total_tokens,
                                    RequestTokens(fileContent, item), capacity)
                 \/ BatchFull(b.files_for_batch, MAX_FILES_PER_BATCH)
              /\ item \notin Range(b.files_for_batch)
              /\ b.last_file_index_in_batch = s - 1
              /\ \A capacity2 \in Capacities :
                   LET n == BuildFrom(b.last_file_index_in_batch, capacity2)
                   IN s \in n.scanned /\ \A i \in n.scanned : i >= s

\* C21 witness: the first scan stopped at the third file because the batch
\* was full, and the next scan started with it: the second batch holds it.
C21_Witness ==
    /\ batchItems[1] = <<1, 2>>
    /\ batchItems[2] = <<3>>
    /\ state.last_file_submitted_index = 2

\* submit_new_batch is about to return an empty batch because the scan
\* stopped at a file that does not fit.
EmptyBecauseNoFit ==
    /\ Building
    /\ CurrentBuild.files_for_batch = <<>>
    /\ ~CurrentBuild.all_files_submitted

\* C22: when submit_new_batch returns an empty batch because no file fits,
\* the cursor is the one the call started with, for every catalog.
C22_EmptyBatchKeepsCursor ==
    [][ (EmptyBecauseNoFit /\ pc' # "submit") =>
           state'.last_file_submitted_index = state.last_file_submitted_index
      ]_vars

\* C22 as amended: when submit_new_batch returns an empty batch because no
\* file fits, the cursor is the index just before the file that does not
\* fit: it is the cursor the call started with when no unreadable file was
\* skipped, and otherwise it has moved past the unreadable files before
\* that file and past nothing else.
C22_EmptyBatchCursorBeforeUnfit ==
    [][ (EmptyBecauseNoFit /\ pc' # "submit") =>
           LET s == MaxOf(CurrentBuild.scanned)
               old == state.last_file_submitted_index
               new == state'.last_file_submitted_index
           IN /\ new = s - 1
              /\ \A i \in (old + 1)..new : ~fileContent[state.source_files[i + 1]].ok
              /\ (\A i \in CurrentBuild.scanned :
                     fileContent[state.source_files[i + 1]].ok) => new = old
              /\ ~state'.all_files_submitted
      ]_vars

\* C22 witness: the first file cannot be read and the second is too large
\* for the whole ceiling; the first call returned an empty batch and left
\* the cursor at the first file, just before the second.
C22_Witness ==
    /\ ~fileContent[1].ok
    /\ fileContent[2] = [ok |-> TRUE, tokens |-> 6]
    /\ pc = "refresh"
    /\ state.last_file_submitted_index = 0
    /\ stateFile.last_file_submitted_index = 0
    /\ CreatedHandles = {}
    /\ rejected = {}

\* C23: a scan sets all_files_submitted exactly when it opened every index
\* after the cursor up to the end of the catalog and appended every readable
\* file among them, which includes the scan that finds no index after the
\* cursor; a scan that stops early leaves the flag clear.
C23_ExhaustedIffScanCompleted ==
    \A cursor \in Cursors : \A capacity \in Capacities :
      LET b == BuildFrom(cursor, capacity)
          rest == (cursor + 1)..(Len(state.source_files) - 1)
          completed ==
              /\ b.scanned = rest
              /\ \A i \in rest :
                    fileContent[state.source_files[i + 1]].ok =>
                       state.source_files[i + 1] \in Range(b.files_for_batch)
      IN b.all_files_submitted <=> completed

\* C23 witness: the first scan stopped early at the third file and left the
\* flag clear, so that the loop called submit_new_batch again; the second
\* scan opened the third file, reached the end and set the flag, and its
\* batch was rejected.
C23_Witness ==
    /\ batchItems[1] = <<1, 2>>
    /\ svc[2] = "none"
    /\ rejected = {3}
    /\ state.all_files_submitted
    /\ state.last_file_submitted_index = 2

\* C24: a batch built from any cursor with any capacity up to the ceiling
\* holds at most MAX_FILES_PER_BATCH files, and so does every batch the
\* service was handed and every file_count recorded.
C24_CountCap ==
    /\ \A cursor \in Cursors : \A capacity \in Capacities :
          Len(BuildFrom(cursor, capacity).files_for_batch) <= MAX_FILES_PER_BATCH
    /\ \A h \in CreatedHandles : Len(batchItems[h]) <= MAX_FILES_PER_BATCH
    /\ \A h \in DOMAIN state.active_batches :
          state.active_batches[h].file_count <= MAX_FILES_PER_BATCH

\* C24 witness: three files that fit together in the ceiling; the first
\* batch was accepted with MAX_FILES_PER_BATCH of them and the third file
\* was left for the next call.
C24_Witness ==
    /\ \A f \in BuildFiles : fileContent[f] = [ok |-> TRUE, tokens |-> 1]
    /\ SumRequestTokens(fileContent, state.source_files) <= QUEUE_LIMIT_TOKENS
    /\ pc = "refresh"
    /\ DOMAIN state.active_batches = {1}
    /\ state.active_batches[1].file_count = MAX_FILES_PER_BATCH
    /\ state.last_file_submitted_index = MAX_FILES_PER_BATCH - 1
    /\ ~state.all_files_submitted

\* ---------------------------------------------------------------------
\* Claims about the refresh and the retriever's selection (SpecSub, Spec)
\* ---------------------------------------------------------------------
\* C25: when get_current_queue_size returns, the map of tracked batches in
\* the state file equals the map in memory, also when the map was empty and
\* nothing was written; a process started right then loads the same map.
C25_MapPersistedAfterRefresh ==
    [][ (pc = "refresh" /\ pc' = "submit") =>
           /\ stateFile'.active_batches = state'.active_batches
           /\ InitializeSourceFiles(stateFile', skip_basenames).active_batches
                 = state'.active_batches
      ]_vars

\* C25 witness: a refresh has just removed the only tracked batch, reported
\* completed, and the state file holds the empty map.
C25_Witness ==
    /\ pc = "submit"
    /\ svc[1] = "completed"
    /\ svc[2] = "none"
    /\ restarts = 0
    /\ state.active_batches = EmptyMap
    /\ stateFile.active_batches = EmptyMap
    /\ available_capacity = QUEUE_LIMIT_TOKENS
    /\ ~state.all_files_submitted

\* The batches a payload of which was handed to the merge.
MergedFrom == { h \in Handles : \E f \in Files :
                   \E i \in 1..Len(mergedHist[f]) : mergedHist[f][i] = Payload(h, f) }

\* C26: the processed file only grows, and every batch that is queued for
\* processing, was handed to process_batch_result, had a payload merged or
\* is in the processed file has the status 'completed': a batch answered
\* validating, failed or cancelling is none of these.
C26_OnlyCompletedRetrieved ==
    [][ /\ processedFile \subseteq processedFile'
        /\ \A h \in Handles :
             ( \/ h \in processedFile'
               \/ h \in processed_batch_ids'
               \/ h \in Range(new_batches')
               \/ fetches'[h] > 0
               \/ h \in MergedFrom' )
             => svc'[h] = "completed"
      ]_vars

\* C26 witness: an invocation has processed the completed first batch and
\* is about to merge, while the second batch, listed in the submission
\* state file and failed, was not queued, fetched or marked.
C26_Witness ==
    /\ recPc = "merge"
    /\ processedFile = {1}
    /\ 1 \in MergedFrom
    /\ DOMAIN stateFile.active_batches = {1, 2}
    /\ svc[2] = "failed"
    /\ fetches[2] = 0

\* ---------------------------------------------------------------------
\* Claims about sized examples of the batch builder (SpecExample)
\* ---------------------------------------------------------------------
\* The catalog starts with three files A, B, C whose requests cost 10 each,
\* and the batch was built from the start of the catalog.
ExampleABC ==
    /\ pc # "submit"
    /\ Len(state.source_files) >= 3
    /\ \A i \in 1..3 : /\ fileContent[state.source_files[i]].ok
                       /\ RequestTokens(fileContent, state.source_files[i]) = 10

\* C27: for the catalog [A, B, C] with requests of 10 tokens each and room
\* for 5 files in a batch, the batch built from the start with capacity 25
\* is {A, B, C}, and with capacity 15 it is {A, B} with the cursor before C.
C27_ExampleAsStated ==
    ExampleABC =>
      /\ available_capacity = 25 => batchItems[1] = SubSeq(state.source_files, 1, 3)
      /\ available_capacity = 15 =>
            /\ batchItems[1] = SubSeq(state.source_files, 1, 2)
            /\ state.last_file_submitted_index = 1

\* C27 as amended: for the same catalog, the batch built with capacity 25
\* is {A, B} with the cursor left before C, and with capacity 15 it is {A}
\* with the cursor left before B; the flag is not set in either case.
C27_ExampleAsBuilt ==
    ExampleABC =>
      /\ available_capacity = 25 =>
            /\ batchItems[1] = SubSeq(state.source_files, 1, 2)
            /\ state.last_file_submitted_index = 1
            /\ ~state.all_files_submitted
      /\ available_capacity = 15 =>
            /\ batchItems[1] = SubSeq(state.source_files, 1, 1)
            /\ state.last_file_submitted_index = 0
            /\ ~state.all_files_submitted

\* C27 witness: the batch was built for [A, B, C] with capacity 25 and
\* holds A and B.
C27_Witness ==
    /\ ExampleABC
    /\ Len(state.source_files) = 3
    /\ available_capacity = 25
    /\ batchItems[1] = <<1, 2>>
    /\ state.last_file_submitted_index = 1

\* The readable files at the catalog indices after old up to new, in order.
ReadableBetween(old, new) ==
    SelectSeq(SubSeq(state.source_files, old + 2, new + 1),
              LAMBDA f : fileContent[f].ok)

\* C28: a non-empty batch is the sequence of the readable files at the
\* indices after the cursor the scan started from up to the cursor it
\* leaves, in catalog order: for every cursor and capacity, and for every
\* batch the service is handed.
C28_BatchIsReadableRange ==
    [][ /\ \A cursor \in Cursors : \A capacity \in Capacities :
             LET b == BuildFrom(cursor, capacity)
             IN b.files_for_batch # <<>> =>
                  b.files_for_batch
                     = ReadableBetween(cursor, b.last_file_index_in_batch)
        /\ \A h \in Handles :
             (svc[h] = "none" /\ svc'[h] # "none") =>
                batchItems'[h] = ReadableBetween(state.last_file_submitted_index,
                                                 state'.last_file_submitted_index)
      ]_vars

\* C28 witness: the second file cannot be read; the first batch holds the
\* first and the third file and the cursor is at the third.
C28_Witness ==
    /\ ~fileContent[2].ok
    /\ batchItems[1] = <<1, 3>>
    /\ svc[1] # "none"
    /\ state.last_file_submitted_index = 2

\* C29: when get_current_queue_size returns, the total it returned is the
\* sum of the committed tokens of every record still in the map, whatever
\* statuses the service answered.
C29_EveryKeptRecordCounted ==
    [][ (pc = "refresh" /\ pc' = "submit") =>
           QUEUE_LIMIT_TOKENS - available_capacity'
              = SumTokensOf(state'.active_batches, DOMAIN state'.active_batches)
      ]_vars

\* ---------------------------------------------------------------------
\* Claims about a file that exceeds the whole ceiling (SpecBuild)
\* ---------------------------------------------------------------------
\* The indices after the cursor whose file is readable, and the first one.
ReadableAfter(cursor) ==
    { i \in (cursor + 1)..(Len(state.source_files) - 1) :
         fileContent[state.source_files[i + 1]].ok }

NextReadable == CHOOSE i \in ReadableAfter(state.last_file_submitted_index) :
                   \A j \in ReadableAfter(state.last_file_submitted_index) : i <= j

\* The next readable file after the cursor costs more than the ceiling.
Stuck ==
    /\ ReadableAfter(state.last_file_submitted_index) # {}
    /\ RequestTokens(fileContent, state.source_files[NextReadable + 1])
          > QUEUE_LIMIT_TOKENS

\* No step hands a batch to the service or has one rejected, sets the flag
\* or ends the loop.
NothingSubmitted ==
    /\ CreatedHandles' = CreatedHandles
    /\ batchItems' = batchItems
    /\ rejected' = rejected
    /\ ~state'.all_files_submitted
    /\ pc' # "done"

\* C30: once the next readable file after the cursor costs more than the
\* ceiling, no step of the run changes the cursor, builds a non-empty batch,
\* sets all_files_submitted or ends the loop.
C30_OversizeBlocksUnchanged ==
    [][ Stuck =>
          /\ state'.last_file_submitted_index = state.last_file_submitted_index
          /\ NothingSubmitted
      ]_vars

\* C30 as amended: once the next readable file after the cursor costs more
\* than the ceiling, the cursor only moves past the unreadable files before
\* that file and then stays just before it, that file stays the next
\* readable one, no step builds a non-empty batch, sets all_files_submitted
\* or ends the loop.
C30_OversizeBlocks ==
    [][ Stuck =>
          /\ state'.last_file_submitted_index
                \in {state.last_file_submitted_index, NextReadable - 1}
          /\ Stuck'
          /\ NextReadable' = NextReadable
          /\ NothingSubmitted
      ]_vars

\* C30 witness: the second file costs more than the ceiling; the batch with
\* the first file was reported completed and removed, the loop is about to
\* refresh again with an empty map, and the third file is in no batch.
C30_Witness ==
    /\ Stuck
    /\ fileContent[3] = [ok |-> TRUE, tokens |-> 1]
    /\ batchItems[1] = <<1>>
    /\ svc = [h \in Handles |-> IF h = 1 THEN "completed" ELSE "none"]
    /\ state.active_batches = EmptyMap
    /\ pc = "refresh"
    /\ state.last_file_submitted_index = 0
    /\ rejected = {}
====
